---- MODULE Spec2Model ----
(***************************************************************************)
(* Idempotent payment initiation of gopay-service.                         *)
(*                                                                         *)
(*   app.PaymentService.InitiatePayment   (src/unnamed/part_003:80-164)   *)
(*   postgres.Repository                  (src/unnamed/part_003:188-381)  *)
(*   domain.Payment, domain.Money         (src/unnamed/part_007)          *)
(*   redis.IdempotencyStore               (internal/adapters/redis)       *)
(*   payments / outbox_events schema      (part_002, migrations/000002)   *)
(*                                                                         *)
(* Every blocking I/O call of a request (cache GET, SELECT, BEGIN, the     *)
(* upsert, the outbox INSERTs, COMMIT, SETNX) is one atomic step; the      *)
(* local computation that follows a call belongs to that call's step.      *)
(* PostgreSQL runs the transactions at READ COMMITTED: other sessions see  *)
(* committed rows only, and a statement that meets an uncommitted write    *)
(* on the same unique-index entry waits for that transaction to end.       *)
(***************************************************************************)
EXTENDS Integers, Sequences, FiniteSets, TLC

\* ------------------------------------------------------------------ bounds
NumProcs == 2
NumKeys == 2
MaxVersion == 2
MaxDrains == 2

Procs == 1..NumProcs
Keys == 1..NumKeys

\* The empty string / zero value of an identifier or idempotency key.
NoID == 0
NoKey == 0

\* ------------------------------------------------------------- domain types
StatusPending == "PENDING"
StatusProcessing == "PROCESSING"

\* strings.ToUpper on one character (the characters the requests use).
UpperChar(ch) ==
    CASE ch = "u" -> "U"
      [] ch = "s" -> "S"
      [] ch = "d" -> "D"
      [] OTHER -> ch

RECURSIVE ToUpper(_)
ToUpper(s) == IF s = <<>> THEN <<>> ELSE <<UpperChar(Head(s))>> \o ToUpper(Tail(s))

RECURSIVE TrimLeft(_)
TrimLeft(s) == IF s # <<>> /\ Head(s) = " " THEN TrimLeft(Tail(s)) ELSE s

RECURSIVE TrimRight(_)
TrimRight(s) ==
    IF s # <<>> /\ s[Len(s)] = " " THEN TrimRight(SubSeq(s, 1, Len(s) - 1)) ELSE s

\* strings.TrimSpace
TrimSpace(s) == TrimRight(TrimLeft(s))

\* A character whose UTF-8 encoding takes 3 bytes (the euro sign).
EuroSign == "<U+20AC>"

\* len(s) of a Go string: its length in bytes.
RECURSIVE ByteLen(_)
ByteLen(s) ==
    IF s = <<>> THEN 0
    ELSE (IF Head(s) = EuroSign THEN 3 ELSE 1) + ByteLen(Tail(s))

\* The zero Money (what NewMoney returns beside an error).
NoMoney == [ok |-> FALSE, amount |-> 0, currency |-> <<>>]

\* domain.NewMoney: [ok, amount, currency]
NewMoney(amount, currency) ==
    LET c == ToUpper(TrimSpace(currency)) IN
    IF amount <= 0 THEN NoMoney
    ELSE IF ByteLen(c) # 3 THEN NoMoney
    ELSE [ok |-> TRUE, amount |-> amount, currency |-> c]

\* domain.PaymentInitiated and its eventType()
PaymentInitiated(id, orderID, money) ==
    [type |-> "payment.initiated", PaymentID |-> id, OrderID |-> orderID,
     Amount |-> money.amount, Currency |-> money.currency]

EventType(e) == e.type

\* No aggregate (a nil *Payment).
NoAgg == [id |-> NoID]

\* A New without the idempotency key check.
NewNoKeyCheck(id, orderID, customerID, money, idempotencyKey) ==
    IF TrimSpace(orderID) = <<>> THEN [ok |-> FALSE, p |-> NoAgg]
    ELSE IF TrimSpace(customerID) = <<>> THEN [ok |-> FALSE, p |-> NoAgg]
    ELSE [ok |-> TRUE,
          p |-> [id |-> id, orderID |-> orderID, customerID |-> customerID,
                 amount |-> money.amount, currency |-> money.currency,
                 status |-> StatusPending, key |-> idempotencyKey,
                 version |-> 1,
                 events |-> <<PaymentInitiated(id, orderID, money)>>]]

\* domain.New: the aggregate a successful create returns; id is the fresh
\* uuid.  [ok, p]
New(id, orderID, customerID, money, idempotencyKey) ==
    IF TrimSpace(orderID) = <<>> THEN [ok |-> FALSE, p |-> NoAgg]
    ELSE IF TrimSpace(customerID) = <<>> THEN [ok |-> FALSE, p |-> NoAgg]
    ELSE IF idempotencyKey = NoKey THEN [ok |-> FALSE, p |-> NoAgg]
    ELSE [ok |-> TRUE,
          p |-> [id |-> id, orderID |-> orderID, customerID |-> customerID,
                 amount |-> money.amount, currency |-> money.currency,
                 status |-> StatusPending, key |-> idempotencyKey,
                 version |-> 1,
                 events |-> <<PaymentInitiated(id, orderID, money)>>]]

\* domain.Reconstitute: rehydration, no validation, no events.
Reconstitute(id, orderID, customerID, amount, currency, status, key, version) ==
    [id |-> id, orderID |-> orderID, customerID |-> customerID,
     amount |-> amount, currency |-> currency, status |-> status,
     key |-> key, version |-> version, events |-> <<>>]

\* PopEvents that returns the buffer without clearing it.
PopEventsKeep(p) == [events |-> p.events, p |-> p]

\* PopEvents that empties the buffer before it reads it.
PopEventsNone(p) == [events |-> <<>>, p |-> [p EXCEPT !.events = <<>>]]

\* Payment.PopEvents: the drained events and the aggregate afterwards.
PopEvents(p) == [events |-> p.events, p |-> [p EXCEPT !.events = <<>>]]

\* uuid.New(): process c's call draws an identifier no other call draws.
NewPaymentID(c) == c

\* --------------------------------------------------------------- requests
USD == <<"U", "S", "D">>
usd == <<"u", "s", "d">>
EURO == <<"E", "U", "R", "O">>
ORD1 == <<"O", "1">>
CUST1 == <<"C", "1">>

\* The payloads a caller sends (order id, customer id, amount, currency).
Payloads ==
    { [orderID |-> ORD1, customerID |-> CUST1, amount |-> 1000, currency |-> USD],
      [orderID |-> ORD1, customerID |-> CUST1, amount |-> 500, currency |-> usd],
      [orderID |-> ORD1, customerID |-> CUST1, amount |-> 1000, currency |-> EURO],
      [orderID |-> ORD1, customerID |-> CUST1, amount |-> 0, currency |-> USD],
      [orderID |-> ORD1, customerID |-> CUST1, amount |-> -1, currency |-> USD],
      [orderID |-> <<>>, customerID |-> CUST1, amount |-> 1000, currency |-> USD],
      [orderID |-> ORD1, customerID |-> <<>>, amount |-> 1000, currency |-> USD],
      [orderID |-> ORD1, customerID |-> CUST1, amount |-> 1000, currency |-> <<>>] }

Request(key, pl) ==
    [OrderID |-> pl.orderID, CustomerID |-> pl.customerID,
     AmountCents |-> pl.amount, Currency |-> pl.currency, IdempotencyKey |-> key]

NoReq == Request(NoKey, [orderID |-> <<>>, customerID |-> <<>>, amount |-> 0,
                         currency |-> <<>>])

\* A Validate that accepts any amount.
ValidateAnyAmount(r) ==
    /\ r.OrderID # <<>>
    /\ r.CustomerID # <<>>
    /\ r.Currency # <<>>
    /\ r.IdempotencyKey # NoKey

\* InitiatePaymentRequest.Validate: TRUE when it returns nil.
Validate(r) ==
    /\ r.OrderID # <<>>
    /\ r.CustomerID # <<>>
    /\ r.AmountCents > 0
    /\ r.Currency # <<>>
    /\ r.IdempotencyKey # NoKey

\* InitiatePaymentResponse and its JSON text (a token sequence).
Response(id, status) == [PaymentID |-> id, Status |-> status]
NoResp == Response(NoID, "")

\* json.Marshal(resp)
Marshal(resp) == <<"{", "PaymentID", resp.PaymentID, "Status", resp.Status, "}">>

\* A cache value that is not JSON.
Garbage == <<"#">>

\* An Unmarshal whose error is dropped: the zero response comes back as parsed.
UnmarshalIgnoreError(text) ==
    IF /\ Len(text) = 6
       /\ text[1] = "{" /\ text[2] = "PaymentID" /\ text[4] = "Status" /\ text[6] = "}"
    THEN [ok |-> TRUE, resp |-> Response(text[3], text[5])]
    ELSE [ok |-> TRUE, resp |-> NoResp]

\* json.Unmarshal(text, &resp): [ok, resp]
Unmarshal(text) ==
    IF /\ Len(text) = 6
       /\ text[1] = "{" /\ text[2] = "PaymentID" /\ text[4] = "Status" /\ text[6] = "}"
    THEN [ok |-> TRUE, resp |-> Response(text[3], text[5])]
    ELSE [ok |-> FALSE, resp |-> NoResp]

\* No cache entry (redis.Nil).
Nil == <<>>

\* ------------------------------------------------------------------ state
VARIABLES
    payments,     \* committed rows of table payments
    outbox,       \* committed rows of table outbox_events, in insertion order
    cache,        \* Redis: idempotency key -> stored text, Nil when absent
    pc,           \* per process: the call it is blocked in / about to make
    op,           \* per process: "initiate" (HTTP request) or "save" (direct Save)
    req,          \* per process: the InitiatePaymentRequest
    agg,          \* per process: the in-memory *domain.Payment
    tx,           \* per process: the open transaction's uncommitted writes
    result,       \* per process: the response and error the operation returned
    doneBefore,   \* per process: the processes that had returned when it started
    seen,         \* per process: the version stored under its aggregate's id when
                  \* its direct Save was called, 0 when no row was stored
    cacheEverOk,  \* TRUE once any cache Get or Set has returned without error
    getOutcome,   \* per process: what its cache Get returned: "" (not called),
                  \* "err", "miss", "hit" (parseable) or "corrupt"
    setOutcome,   \* per process: what its cache Set returned: "", "err" or "ok"
    cancelled,    \* per process: the caller's context has been cancelled
    drained,      \* per process: what each PopEvents call it made directly
                  \* returned, in call order
    bufferAtCall, \* per process: the aggregate's event buffer when its direct
                  \* Save was called
    money,        \* per process: what its direct NewMoney call returned
    prevErr       \* per process: the error its caller's previous call returned,
                  \* "" when this is the caller's first call

vars == <<payments, outbox, cache, pc, op, req, agg, tx, result, doneBefore, seen,
          cacheEverOk, getOutcome, setOutcome, cancelled, drained, bufferAtCall,
          money, prevErr>>

\* A payments row holding aggregate p (upsertPayment's VALUES list).
Row(p) ==
    [id |-> p.id, orderID |-> p.orderID, customerID |-> p.customerID,
     amount |-> p.amount, currency |-> p.currency, status |-> p.status,
     key |-> p.key, version |-> p.version]

NoRow == [id |-> NoID]

\* An outbox_events row (aggregate_id, event_type; payload is the event).
OutboxRow(aggregateID, evt) ==
    [aggregate_id |-> aggregateID, event_type |-> EventType(evt), payload |-> evt]

NoTx == [write |-> NoRow, outbox |-> <<>>]

Result(resp, err) == [resp |-> resp, err |-> err]
NoResult == Result(NoResp, "")

\* Error kinds.  Save's errors keep their identity through the "%w" wraps.
ErrVersionConflict == "payment version conflict"
ErrValidation == "validation"
ErrLookup == "idempotency key lookup"
ErrInvalidAmount == "invalid amount"
ErrCreate == "create payment"
ErrBegin == "begin transaction"
ErrUpsert == "upsert payment"
ErrUniqueViolation == "upsert payment: unique_violation idx_payments_idempotency_key"
ErrOutbox == "insert outbox event"
ErrCommit == "commit transaction"
ErrNotFound == "payment not found"
ErrInvalidTransition == "invalid payment status transition"

\* Handler.mapError: the error code of the HTTP response for a service error.
mapError(err) ==
    IF err = ErrNotFound THEN "NOT_FOUND"
    ELSE IF err = ErrVersionConflict THEN "CONFLICT"
    ELSE IF err = ErrInvalidTransition THEN "INVALID_STATE_TRANSITION"
    ELSE "INTERNAL_ERROR"

\* Handler.initiatePayment: what the caller is answered for result r.
HandlerAnswer(r) ==
    IF r.err = ErrValidation THEN "VALIDATION_ERROR"
    ELSE IF r.err # "" THEN mapError(r.err)
    ELSE "CREATED"

\* The state after construction: empty tables, empty cache, no request.
Init ==
    /\ payments = {}
    /\ outbox = <<>>
    /\ cache = [k \in Keys |-> Nil]
    /\ pc = [c \in Procs |-> "idle"]
    /\ op = [c \in Procs |-> "none"]
    /\ req = [c \in Procs |-> NoReq]
    /\ agg = [c \in Procs |-> NoAgg]
    /\ tx = [c \in Procs |-> NoTx]
    /\ result = [c \in Procs |-> NoResult]
    /\ doneBefore = [c \in Procs |-> {}]
    /\ seen = [c \in Procs |-> 0]
    /\ cacheEverOk = FALSE
    /\ getOutcome = [c \in Procs |-> ""]
    /\ setOutcome = [c \in Procs |-> ""]
    /\ cancelled = [c \in Procs |-> FALSE]
    /\ drained = [c \in Procs |-> <<>>]
    /\ bufferAtCall = [c \in Procs |-> <<>>]
    /\ money = [c \in Procs |-> NoMoney]
    /\ prevErr = [c \in Procs |-> ""]

\* The operation of process c returns (resp, err).
Return(c, resp, err) ==
    /\ pc' = [pc EXCEPT ![c] = "done"]
    /\ result' = [result EXCEPT ![c] = Result(resp, err)]

\* Processes are numbered in the order their operations start.
Arrived(c) == \A d \in Procs : d < c => pc[d] # "idle"

\* Idempotency keys are numbered in the order of their first use.
FirstUseOrder(k) ==
    \A j \in Keys : j < k => \E d \in Procs : req[d].IdempotencyKey = j

\* ------------------------------------------------------- HTTP handler entry
\* Handler.initiatePayment: decode, Validate, then InitiatePayment.
HandleInitiate(c) ==
    /\ pc[c] = "idle"
    /\ Arrived(c)
    /\ \E k \in Keys \cup {NoKey}, pl \in Payloads :
         LET r == Request(k, pl) IN
         /\ FirstUseOrder(k)
         /\ req' = [req EXCEPT ![c] = r]
         /\ IF Validate(r)
            THEN /\ pc' = [pc EXCEPT ![c] = "get"]
                 /\ UNCHANGED result
            ELSE Return(c, NoResp, ErrValidation)
    /\ op' = [op EXCEPT ![c] = "initiate"]
    /\ doneBefore' = [doneBefore EXCEPT ![c] = {d \in Procs : pc[d] = "done"}]
    /\ UNCHANGED <<payments, outbox, cache, agg, tx, seen, cacheEverOk, getOutcome,
                   setOutcome, cancelled, drained, bufferAtCall, money, prevErr>>

\* ------------------------------------------------------ InitiatePayment
\* A cache lookup whose failure fails the request instead of falling through.
CacheGetFatal(c) ==
    /\ pc[c] = "get"
    /\ \/ /\ Return(c, NoResp, "idempotency cache unavailable")
          /\ getOutcome' = [getOutcome EXCEPT ![c] = "err"]
          /\ UNCHANGED cacheEverOk
       \/ /\ ~cancelled[c]
          /\ cacheEverOk' = TRUE
          /\ LET val == cache[req[c].IdempotencyKey]
                 u == Unmarshal(val)
             IN IF val # Nil /\ u.ok
                THEN /\ Return(c, u.resp, "")
                     /\ getOutcome' = [getOutcome EXCEPT ![c] = "hit"]
                ELSE /\ pc' = [pc EXCEPT ![c] = "find"]
                     /\ getOutcome' = [getOutcome EXCEPT
                                         ![c] = IF val = Nil THEN "miss" ELSE "corrupt"]
                     /\ UNCHANGED result
    /\ UNCHANGED <<payments, outbox, cache, op, req, agg, tx, doneBefore, seen,
                   setOutcome, cancelled, drained, bufferAtCall, money, prevErr>>

\* A cache lookup that looks the key up in the store even on a hit.
CacheGetIgnoreHit(c) ==
    /\ pc[c] = "get"
    /\ pc' = [pc EXCEPT ![c] = "find"]
    /\ \/ /\ getOutcome' = [getOutcome EXCEPT ![c] = "err"]
          /\ UNCHANGED cacheEverOk
       \/ /\ ~cancelled[c]
          /\ cacheEverOk' = TRUE
          /\ LET val == cache[req[c].IdempotencyKey] IN
             getOutcome' = [getOutcome EXCEPT
                              ![c] = IF val = Nil THEN "miss"
                                     ELSE IF Unmarshal(val).ok THEN "hit"
                                     ELSE "corrupt"]
    /\ UNCHANGED <<payments, outbox, cache, op, req, agg, tx, result, doneBefore, seen,
                   setOutcome, cancelled, drained, bufferAtCall, money, prevErr>>

\* InitiatePayment lines 81-96: the cache lookup.
CacheGet(c) ==
    /\ pc[c] = "get"
    /\ \/ \* Get returns an error (Redis unreachable, or the context is
          \* cancelled): logged, fall through to the store
          /\ pc' = [pc EXCEPT ![c] = "find"]
          /\ getOutcome' = [getOutcome EXCEPT ![c] = "err"]
          /\ UNCHANGED <<result, cacheEverOk>>
       \/ \* Get returns (val, ok, nil)
          /\ ~cancelled[c]
          /\ cacheEverOk' = TRUE
          /\ LET val == cache[req[c].IdempotencyKey]
                 u == Unmarshal(val)
             IN IF val # Nil /\ u.ok
                THEN /\ Return(c, u.resp, "")
                     /\ getOutcome' = [getOutcome EXCEPT ![c] = "hit"]
                ELSE /\ pc' = [pc EXCEPT ![c] = "find"]
                     /\ getOutcome' = [getOutcome EXCEPT
                                         ![c] = IF val = Nil THEN "miss" ELSE "corrupt"]
                     /\ UNCHANGED result
    /\ UNCHANGED <<payments, outbox, cache, op, req, agg, tx, doneBefore, seen,
                   setOutcome, cancelled, drained, bufferAtCall, money, prevErr>>

\* A scan that leaves the identifier column out.
scanPaymentNoID(row) ==
    LET m == NewMoney(row.amount, row.currency) IN
    IF ~m.ok THEN [ok |-> FALSE, p |-> NoAgg]
    ELSE [ok |-> TRUE,
          p |-> Reconstitute(NoID, row.orderID, row.customerID, m.amount,
                             m.currency, row.status, row.key, row.version)]

\* scanPayment: a stored row back to an aggregate.  [ok, p]
scanPayment(row) ==
    LET m == NewMoney(row.amount, row.currency) IN
    IF ~m.ok THEN [ok |-> FALSE, p |-> NoAgg]
    ELSE [ok |-> TRUE,
          p |-> Reconstitute(row.id, row.orderID, row.customerID, m.amount,
                             m.currency, row.status, row.key, row.version)]

\* A lookup that never finds the stored aggregate.
FindByIdempotencyKeyMiss(key) == {}

\* A lookup whose WHERE clause also asks for a status no new row has.
FindByIdempotencyKeyProcessing(key) ==
    {r \in payments : r.key = key /\ r.status = StatusProcessing}

\* Repository.FindByIdempotencyKey: the committed rows the SELECT can return.
FindByIdempotencyKey(key) == {r \in payments : r.key = key}

\* A lookup that, on finding the aggregate, stores the request's amount in
\* its row.
FindOverwrites(c) ==
    /\ pc[c] = "find"
    /\ \/ /\ Return(c, NoResp, ErrLookup)
          /\ UNCHANGED <<agg, payments>>
       \/ /\ \E row \in FindByIdempotencyKey(req[c].IdempotencyKey) :
               LET s == scanPayment(row) IN
               IF s.ok
               THEN /\ pc' = [pc EXCEPT ![c] = "cacheSet"]
                    /\ result' = [result EXCEPT
                                    ![c] = Result(Response(s.p.id, s.p.status), "")]
                    /\ payments' = (payments \ {row})
                                      \cup {[row EXCEPT !.amount = req[c].AmountCents]}
               ELSE Return(c, NoResp, ErrLookup) /\ UNCHANGED payments
          /\ UNCHANGED agg
       \/ /\ FindByIdempotencyKey(req[c].IdempotencyKey) = {}
          /\ UNCHANGED payments
          /\ LET r == req[c]
                 amount == NewMoney(r.AmountCents, r.Currency)
                 created == New(NewPaymentID(c), r.OrderID, r.CustomerID, amount,
                                r.IdempotencyKey)
             IN IF ~amount.ok
                THEN Return(c, NoResp, ErrInvalidAmount) /\ UNCHANGED agg
                ELSE IF ~created.ok
                THEN Return(c, NoResp, ErrCreate) /\ UNCHANGED agg
                ELSE /\ agg' = [agg EXCEPT ![c] = created.p]
                     /\ pc' = [pc EXCEPT ![c] = "begin"]
                     /\ UNCHANGED result
    /\ UNCHANGED <<outbox, cache, op, req, tx, doneBefore, seen, cacheEverOk,
                   getOutcome, setOutcome, cancelled, drained, bufferAtCall, money,
                   prevErr>>

\* InitiatePayment lines 98-121: the authoritative lookup, then NewMoney and New.
Find(c) ==
    /\ pc[c] = "find"
    /\ \/ \* the SELECT fails
          /\ Return(c, NoResp, ErrLookup)
          /\ UNCHANGED agg
       \/ \* an aggregate exists for the key
          /\ \E row \in FindByIdempotencyKey(req[c].IdempotencyKey) :
               LET s == scanPayment(row) IN
               IF s.ok
               THEN /\ pc' = [pc EXCEPT ![c] = "cacheSet"]
                    /\ result' = [result EXCEPT
                                    ![c] = Result(Response(s.p.id, s.p.status), "")]
               ELSE Return(c, NoResp, ErrLookup)
          /\ UNCHANGED agg
       \/ \* no aggregate: build Money and the aggregate
          /\ FindByIdempotencyKey(req[c].IdempotencyKey) = {}
          /\ LET r == req[c]
                 amount == NewMoney(r.AmountCents, r.Currency)
                 created == New(NewPaymentID(c), r.OrderID, r.CustomerID, amount,
                                r.IdempotencyKey)
             IN IF ~amount.ok
                THEN Return(c, NoResp, ErrInvalidAmount) /\ UNCHANGED agg
                ELSE IF ~created.ok
                THEN Return(c, NoResp, ErrCreate) /\ UNCHANGED agg
                ELSE /\ agg' = [agg EXCEPT ![c] = created.p]
                     /\ pc' = [pc EXCEPT ![c] = "begin"]
                     /\ UNCHANGED result
    /\ UNCHANGED <<payments, outbox, cache, op, req, tx, doneBefore, seen, cacheEverOk,
                   getOutcome, setOutcome, cancelled, drained, bufferAtCall, money,
                   prevErr>>

\* ------------------------------------------------------- Repository.Save
\* A failed Save after which the call still caches a response.
SaveFailsThenCaches(c, err) ==
    /\ tx' = [tx EXCEPT ![c] = NoTx]
    /\ pc' = [pc EXCEPT ![c] = "cacheSet"]
    /\ result' = [result EXCEPT ![c] = Result(Response(agg[c].id, agg[c].status), err)]

\* Save has ended with error err: withTx rolled the transaction back (or never
\* opened it); InitiatePayment wraps the error and returns it.
SaveFails(c, err) ==
    /\ tx' = [tx EXCEPT ![c] = NoTx]
    /\ Return(c, NoResp, err)

\* withTx: pool.Begin.
Begin(c) ==
    /\ pc[c] = "begin"
    /\ \/ /\ pc' = [pc EXCEPT ![c] = "upsert"]
          /\ tx' = [tx EXCEPT ![c] = NoTx]
          /\ UNCHANGED result
       \/ SaveFails(c, ErrBegin)
    /\ UNCHANGED <<payments, outbox, cache, op, req, agg, doneBefore, seen,
                   cacheEverOk, getOutcome, setOutcome, cancelled, drained,
                   bufferAtCall, money, prevErr>>

\* The uncommitted payments writes of the transactions other than c's.
OtherWrites(c) == {tx[d].write : d \in Procs \ {c}} \ {NoRow}

\* WHERE clauses that differ from the written one: accept any stored version
\* not newer than the incoming one; no version test at all; the "- 1" left out.
VersionCheckNotNewer(stored, incoming) == stored <= incoming

VersionCheckNone(stored, incoming) == TRUE

VersionCheckSame(stored, incoming) == stored = incoming

\* The optimistic-locking WHERE clause: payments.version = EXCLUDED.version - 1.
VersionCheck(stored, incoming) == stored = incoming - 1

\* The unique index declared on customer_id, which every row here shares.
UniqueKeyTakenWrongColumn(rows, key) == rows # {}

\* The payments table without its unique index on idempotency_key.
UniqueKeyTakenNoIndex(rows, key) == FALSE

\* idx_payments_idempotency_key: rows is a set of rows one of which holds key.
UniqueKeyTaken(rows, key) == \E row \in rows : row.key = key

\* ON CONFLICT (id) DO UPDATE SET status, ..., version = EXCLUDED.*
UpdatedRow(row, p) == [row EXCEPT !.status = p.status, !.version = p.version]

\* upsertPayment: INSERT ... ON CONFLICT (id) DO UPDATE ... WHERE, then the
\* RowsAffected test.
upsertPayment(c) ==
    /\ pc[c] = "upsert"
    /\ LET p == agg[c]
           stored == {row \in payments : row.id = p.id}
       IN \/ \* tx.Exec returns an error (connection lost, statement refused)
             SaveFails(c, ErrUpsert)
          \/ \* the statement runs once no other transaction holds the id's entry
             /\ ~ \E w \in OtherWrites(c) : w.id = p.id
             /\ IF stored # {}
                THEN \* conflict on the primary key: the conditional UPDATE
                     LET row == CHOOSE row \in stored : TRUE IN
                     IF VersionCheck(row.version, p.version)
                     THEN /\ tx' = [tx EXCEPT ![c].write = UpdatedRow(row, p)]
                          /\ pc' = [pc EXCEPT ![c] = "outbox"]
                          /\ UNCHANGED result
                     ELSE \* RowsAffected() == 0
                          SaveFails(c, ErrVersionConflict)
                ELSE \* no row with the id: the INSERT, checked against the
                     \* unique index on idempotency_key
                     IF UniqueKeyTaken(payments, p.key)
                     THEN SaveFails(c, ErrUniqueViolation)
                     ELSE /\ ~ UniqueKeyTaken(OtherWrites(c), p.key)
                          /\ tx' = [tx EXCEPT ![c].write = Row(p)]
                          /\ pc' = [pc EXCEPT ![c] = "outbox"]
                          /\ UNCHANGED result
    /\ UNCHANGED <<payments, outbox, cache, op, req, agg, doneBefore, seen,
                   cacheEverOk, getOutcome, setOutcome, cancelled, drained,
                   bufferAtCall, money, prevErr>>

\* The outbox rows of a sequence of events of aggregate id.
RECURSIVE OutboxRows(_, _)
OutboxRows(id, events) ==
    IF events = <<>> THEN <<>>
    ELSE <<OutboxRow(id, Head(events))>> \o OutboxRows(id, Tail(events))

\* A writeOutboxEvents that reads the buffer without draining it.
writeOutboxEventsNoDrain(c) ==
    /\ pc[c] = "outbox"
    /\ LET popped == [events |-> agg[c].events, p |-> agg[c]] IN
       /\ agg' = [agg EXCEPT ![c] = popped.p]
       /\ \/ /\ tx' = [tx EXCEPT ![c].outbox = OutboxRows(agg[c].id, popped.events)]
             /\ pc' = [pc EXCEPT ![c] = "commit"]
             /\ UNCHANGED result
          \/ \* one of the INSERTs fails
             /\ popped.events # <<>>
             /\ SaveFails(c, ErrOutbox)
    /\ UNCHANGED <<payments, outbox, cache, op, req, doneBefore, seen, cacheEverOk,
                   getOutcome, setOutcome, cancelled, drained, bufferAtCall, money,
                   prevErr>>

\* writeOutboxEvents: drain the buffer, one INSERT per event inside the tx.
writeOutboxEvents(c) ==
    /\ pc[c] = "outbox"
    /\ LET popped == PopEvents(agg[c]) IN
       /\ agg' = [agg EXCEPT ![c] = popped.p]
       /\ \/ /\ tx' = [tx EXCEPT ![c].outbox = OutboxRows(agg[c].id, popped.events)]
             /\ pc' = [pc EXCEPT ![c] = "commit"]
             /\ UNCHANGED result
          \/ \* one of the INSERTs fails
             /\ popped.events # <<>>
             /\ SaveFails(c, ErrOutbox)
    /\ UNCHANGED <<payments, outbox, cache, op, req, doneBefore, seen, cacheEverOk,
                   getOutcome, setOutcome, cancelled, drained, bufferAtCall, money,
                   prevErr>>

\* A Save whose upsert is not part of the transaction: a failed COMMIT leaves
\* the payments row stored.
CommitPartial(c) ==
    /\ pc[c] = "commit"
    /\ \/ /\ payments' = {row \in payments : row.id # tx[c].write.id} \cup {tx[c].write}
          /\ outbox' = outbox \o tx[c].outbox
          /\ tx' = [tx EXCEPT ![c] = NoTx]
          /\ IF op[c] = "initiate"
             THEN pc' = [pc EXCEPT ![c] = "events"] /\ UNCHANGED result
             ELSE Return(c, NoResp, "")
       \/ /\ SaveFails(c, ErrCommit)
          /\ payments' = {row \in payments : row.id # tx[c].write.id} \cup {tx[c].write}
          /\ UNCHANGED outbox
    /\ UNCHANGED <<cache, op, req, agg, doneBefore, seen, cacheEverOk, getOutcome,
                   setOutcome, cancelled, drained, bufferAtCall, money, prevErr>>

\* A Save that drops the error of a failed COMMIT.
CommitUnchecked(c) ==
    /\ pc[c] = "commit"
    /\ \/ /\ payments' = {row \in payments : row.id # tx[c].write.id} \cup {tx[c].write}
          /\ outbox' = outbox \o tx[c].outbox
       \/ UNCHANGED <<payments, outbox>>
    /\ tx' = [tx EXCEPT ![c] = NoTx]
    /\ IF op[c] = "initiate"
       THEN pc' = [pc EXCEPT ![c] = "events"] /\ UNCHANGED result
       ELSE Return(c, NoResp, "")
    /\ UNCHANGED <<cache, op, req, agg, doneBefore, seen, cacheEverOk, getOutcome,
                   setOutcome, cancelled, drained, bufferAtCall, money, prevErr>>

\* withTx: tx.Commit, and Save's return to its caller.
Commit(c) ==
    /\ pc[c] = "commit"
    /\ \/ \* the commit applies both tables' writes at once
          /\ payments' = {row \in payments : row.id # tx[c].write.id} \cup {tx[c].write}
          /\ outbox' = outbox \o tx[c].outbox
          /\ tx' = [tx EXCEPT ![c] = NoTx]
          /\ IF op[c] = "initiate"
             THEN pc' = [pc EXCEPT ![c] = "events"] /\ UNCHANGED result
             ELSE Return(c, NoResp, "")
       \/ \* the commit fails: nothing of the transaction becomes visible
          /\ SaveFails(c, ErrCommit)
          /\ UNCHANGED <<payments, outbox>>
    /\ UNCHANGED <<cache, op, req, agg, doneBefore, seen, cacheEverOk, getOutcome,
                   setOutcome, cancelled, drained, bufferAtCall, money, prevErr>>

\* ------------------------------------------- InitiatePayment after Save
\* Repository.Write: one INSERT into outbox_events outside any transaction.
Write(rows, aggregateID, evt) == Append(rows, OutboxRow(aggregateID, evt))

\* The rows after Write was tried for each event; written is the set of
\* positions whose INSERT succeeded.
RECURSIVE WriteEach(_, _, _, _, _)
WriteEach(rows, id, events, i, written) ==
    IF i > Len(events) THEN rows
    ELSE WriteEach(IF i \in written THEN Write(rows, id, events[i]) ELSE rows,
                   id, events, i + 1, written)

\* InitiatePayment lines 127-142: the loop over payment.PopEvents() and the
\* response.
PostSaveEvents(c) ==
    /\ pc[c] = "events"
    /\ LET popped == PopEvents(agg[c]) IN
       /\ agg' = [agg EXCEPT ![c] = popped.p]
       /\ \E written \in SUBSET (1..Len(popped.events)) :
            outbox' = WriteEach(outbox, agg[c].id, popped.events, 1, written)
    /\ result' = [result EXCEPT ![c] = Result(Response(agg[c].id, agg[c].status), "")]
    /\ pc' = [pc EXCEPT ![c] = "cacheSet"]
    /\ UNCHANGED <<payments, cache, op, req, tx, doneBefore, seen, cacheEverOk,
                   getOutcome, setOutcome, cancelled, drained, bufferAtCall, money,
                   prevErr>>

\* A Set that overwrites (SET in place of SETNX).
SetOverwrite(entries, key, text) == [entries EXCEPT ![key] = text]

\* IdempotencyStore.Set: SETNX, the text stays when the key is present.
Set(entries, key, text) == IF entries[key] = Nil THEN [entries EXCEPT ![key] = text] ELSE entries

\* A cache write whose failure fails the request.
CacheSetFatal(c) ==
    /\ pc[c] = "cacheSet"
    /\ \/ /\ setOutcome' = [setOutcome EXCEPT ![c] = "err"]
          /\ result' = [result EXCEPT ![c] = Result(NoResp, "idempotency cache unavailable")]
          /\ UNCHANGED <<cache, cacheEverOk>>
       \/ /\ ~cancelled[c]
          /\ cache' = Set(cache, req[c].IdempotencyKey, Marshal(result[c].resp))
          /\ setOutcome' = [setOutcome EXCEPT ![c] = "ok"]
          /\ cacheEverOk' = TRUE
          /\ UNCHANGED result
    /\ pc' = [pc EXCEPT ![c] = "done"]
    /\ UNCHANGED <<payments, outbox, op, req, agg, tx, doneBefore, seen, getOutcome,
                   cancelled, drained, bufferAtCall, money, prevErr>>

\* PaymentService.cache, then InitiatePayment returns resp.
CacheSet(c) ==
    /\ pc[c] = "cacheSet"
    /\ \/ \* SETNX returns an error (Redis unreachable, or the context is
          \* cancelled): logged
          /\ setOutcome' = [setOutcome EXCEPT ![c] = "err"]
          /\ UNCHANGED <<cache, cacheEverOk>>
       \/ /\ ~cancelled[c]
          /\ cache' = Set(cache, req[c].IdempotencyKey, Marshal(result[c].resp))
          /\ setOutcome' = [setOutcome EXCEPT ![c] = "ok"]
          /\ cacheEverOk' = TRUE
    /\ pc' = [pc EXCEPT ![c] = "done"]
    /\ UNCHANGED <<payments, outbox, op, req, agg, tx, result, doneBefore, seen,
                   getOutcome, cancelled, drained, bufferAtCall, money, prevErr>>

\* ------------------------------------------------------------ environment
\* The 24 h TTL of an entry runs out.
Expire(k) ==
    /\ cache[k] # Nil
    /\ cache' = [cache EXCEPT ![k] = Nil]
    /\ UNCHANGED <<payments, outbox, pc, op, req, agg, tx, result, doneBefore, seen,
                   cacheEverOk, getOutcome, setOutcome, cancelled, drained,
                   bufferAtCall, money, prevErr>>

\* An entry's text is damaged and no longer parses.
Corrupt(k) ==
    /\ cache[k] \notin {Nil, Garbage}
    /\ cache' = [cache EXCEPT ![k] = Garbage]
    /\ UNCHANGED <<payments, outbox, pc, op, req, agg, tx, result, doneBefore, seen,
                   cacheEverOk, getOutcome, setOutcome, cancelled, drained,
                   bufferAtCall, money, prevErr>>

\* ------------------------------------------------------------ the service
Next ==
    \/ \E c \in Procs :
         \/ HandleInitiate(c)
         \/ CacheGet(c)
         \/ Find(c)
         \/ Begin(c)
         \/ upsertPayment(c)
         \/ writeOutboxEvents(c)
         \/ Commit(c)
         \/ PostSaveEvents(c)
         \/ CacheSet(c)
    \/ \E k \in Keys : Expire(k) \/ Corrupt(k)

Spec == Init /\ [][Next]_vars

\* ------------------------------------------------- caller cancellation
\* The context of an in-flight request (r.Context()) is cancelled: the
\* client went away or its deadline passed.
Cancel(c) ==
    /\ op[c] = "initiate"
    /\ pc[c] \notin {"idle", "done"}
    /\ ~cancelled[c]
    /\ cancelled' = [cancelled EXCEPT ![c] = TRUE]
    /\ UNCHANGED <<payments, outbox, cache, pc, op, req, agg, tx, result, doneBefore,
                   seen, cacheEverOk, getOutcome, setOutcome, drained, bufferAtCall,
                   money, prevErr>>

NextCancel ==
    \/ Next
    \/ \E c \in Procs : Cancel(c)

SpecCancel == Init /\ [][NextCancel]_vars

\* ------------------------------------------------ Repository.Save alone
\* Save called directly by concurrent writers, on aggregates a caller can
\* hold: one returned by New (version 1, one buffered event) or one returned
\* by Reconstitute (any version, no event).
SaveIds == {1, 2}

Money1000 == NewMoney(1000, USD)

Created(id, key) == New(id, ORD1, CUST1, Money1000, key).p

Loaded(id, key, version) ==
    Reconstitute(id, ORD1, CUST1, Money1000.amount, Money1000.currency,
                 IF version = 1 THEN StatusPending ELSE StatusProcessing,
                 key, version)

SaveInputs ==
    {Created(id, key) : id \in SaveIds, key \in Keys}
        \cup {Loaded(x[1], x[2], x[3]) : x \in SaveIds \X Keys \X (1..MaxVersion)}

\* The aggregate an earlier InitiatePayment stored: id 1, key 1, version 1.
Seed == Created(1, 1)

\* The store is empty, or holds the seed's row and its outbox row.
InitSave ==
    /\ \/ payments = {} /\ outbox = <<>>
       \/ payments = {Row(Seed)} /\ outbox = OutboxRows(Seed.id, Seed.events)
    /\ cache = [k \in Keys |-> Nil]
    /\ pc = [c \in Procs |-> "idle"]
    /\ op = [c \in Procs |-> "none"]
    /\ req = [c \in Procs |-> NoReq]
    /\ agg = [c \in Procs |-> NoAgg]
    /\ tx = [c \in Procs |-> NoTx]
    /\ result = [c \in Procs |-> NoResult]
    /\ doneBefore = [c \in Procs |-> {}]
    /\ seen = [c \in Procs |-> 0]
    /\ cacheEverOk = FALSE
    /\ getOutcome = [c \in Procs |-> ""]
    /\ setOutcome = [c \in Procs |-> ""]
    /\ cancelled = [c \in Procs |-> FALSE]
    /\ drained = [c \in Procs |-> <<>>]
    /\ bufferAtCall = [c \in Procs |-> <<>>]
    /\ money = [c \in Procs |-> NoMoney]
    /\ prevErr = [c \in Procs |-> ""]

\* Identifiers and keys are numbered in the order of their first use, by a
\* stored row or by a writer; an identifier names one aggregate, whose
\* idempotency key never changes.
SaveFirstUseOrder(p) ==
    LET known == payments \cup {agg[d] : d \in Procs} IN
    /\ \A i \in SaveIds : i < p.id => \E q \in known : q.id = i
    /\ \A j \in Keys : j < p.key => \E q \in known : q.id # NoID /\ q.key = j
    /\ \A q \in known : q.id = p.id => q.key = p.key

\* The version committed under identifier id, 0 when there is no row.
StoredVersion(id) ==
    IF \E row \in payments : row.id = id
    THEN (CHOOSE row \in payments : row.id = id).version
    ELSE 0

\* A writer calls Repository.Save(p).
StartSave(c) ==
    /\ pc[c] = "idle"
    /\ Arrived(c)
    /\ \E p \in SaveInputs :
         /\ SaveFirstUseOrder(p)
         /\ agg' = [agg EXCEPT ![c] = p]
         /\ seen' = [seen EXCEPT ![c] = StoredVersion(p.id)]
         /\ bufferAtCall' = [bufferAtCall EXCEPT ![c] = p.events]
    /\ op' = [op EXCEPT ![c] = "save"]
    /\ pc' = [pc EXCEPT ![c] = "begin"]
    /\ doneBefore' = [doneBefore EXCEPT ![c] = {d \in Procs : pc[d] = "done"}]
    /\ UNCHANGED <<payments, outbox, cache, req, tx, result, cacheEverOk, getOutcome,
                   setOutcome, cancelled, drained, money, prevErr>>

NextSave ==
    \E c \in Procs :
       \/ StartSave(c)
       \/ Begin(c)
       \/ upsertPayment(c)
       \/ writeOutboxEvents(c)
       \/ Commit(c)

SpecSave == InitSave /\ [][NextSave]_vars

\* ------------------------------------------------------ domain.New alone
\* New called directly, with ids and a key that are empty, blank or filled
\* and a Money that NewMoney returned.
BLANK == <<" ">>

CreateInputs ==
    [orderID : {ORD1, <<>>, BLANK}, customerID : {CUST1, <<>>, BLANK},
     amount : {1000, 500}, currency : {USD}]

\* A caller creates an aggregate: domain.New(orderID, customerID, amount, key).
Create(c) ==
    /\ pc[c] = "idle"
    /\ Arrived(c)
    /\ \E k \in Keys \cup {NoKey}, pl \in CreateInputs :
         LET created == New(NewPaymentID(c), pl.orderID, pl.customerID,
                            NewMoney(pl.amount, pl.currency), k)
         IN /\ FirstUseOrder(k)
            /\ req' = [req EXCEPT ![c] = Request(k, pl)]
            /\ agg' = [agg EXCEPT ![c] = created.p]
            /\ Return(c, NoResp, IF created.ok THEN "" ELSE ErrCreate)
    /\ op' = [op EXCEPT ![c] = "create"]
    /\ UNCHANGED <<payments, outbox, cache, tx, doneBefore, seen, cacheEverOk,
                   getOutcome, setOutcome, cancelled, drained, bufferAtCall, money,
                   prevErr>>

NextDomain == \E c \in Procs : Create(c)

SpecDomain == Init /\ [][NextDomain]_vars


\* ------------------------------------------------- Payment.PopEvents alone
\* PopEvents called directly, up to MaxDrains times in a row, on aggregates a
\* caller can hold: one returned by New or one returned by Reconstitute.
InitDrain ==
    /\ payments = {} /\ outbox = <<>>
    /\ cache = [k \in Keys |-> Nil]
    /\ pc = [c \in Procs |-> "idle"]
    /\ op = [c \in Procs |-> "drain"]
    /\ req = [c \in Procs |-> NoReq]
    /\ agg \in [Procs -> SaveInputs]
    /\ tx = [c \in Procs |-> NoTx]
    /\ result = [c \in Procs |-> NoResult]
    /\ doneBefore = [c \in Procs |-> {}]
    /\ seen = [c \in Procs |-> 0]
    /\ cacheEverOk = FALSE
    /\ getOutcome = [c \in Procs |-> ""]
    /\ setOutcome = [c \in Procs |-> ""]
    /\ cancelled = [c \in Procs |-> FALSE]
    /\ drained = [c \in Procs |-> <<>>]
    /\ bufferAtCall = [c \in Procs |-> <<>>]
    /\ money = [c \in Procs |-> NoMoney]
    /\ prevErr = [c \in Procs |-> ""]

\* events := p.PopEvents()
Drain(c) ==
    /\ op[c] = "drain"
    /\ Len(drained[c]) < MaxDrains
    /\ LET popped == PopEvents(agg[c]) IN
       /\ agg' = [agg EXCEPT ![c] = popped.p]
       /\ drained' = [drained EXCEPT ![c] = Append(@, popped.events)]
    /\ UNCHANGED <<payments, outbox, cache, pc, op, req, tx, result, doneBefore, seen,
                   cacheEverOk, getOutcome, setOutcome, cancelled, bufferAtCall, money,
                   prevErr>>

NextDrain == \E c \in Procs : Drain(c)

SpecDrain == InitDrain /\ [][NextDrain]_vars


\* -------------------------------------------------- domain.NewMoney alone
\* NewMoney called directly on amounts around zero and on currencies that
\* are well-formed, lower-case, too short, too long, padded with a space,
\* not alphabetic, or one 3-byte character.
PaddedUSD == <<" ", "U", "S", "D">>
US == <<"U", "S">>
Digits == <<"1", "2", "$">>
Euro == <<EuroSign>>

MoneyInputs ==
    [amount : {-1, 0, 1, 1000},
     currency : {USD, usd, EURO, <<>>, US, PaddedUSD, Digits, Euro}]

\* A caller builds a Money: domain.NewMoney(amount, currency).
MakeMoney(c) ==
    /\ pc[c] = "idle"
    /\ Arrived(c)
    /\ \E inp \in MoneyInputs :
         /\ req' = [req EXCEPT ![c] = Request(NoKey, [orderID |-> <<>>,
                                                     customerID |-> <<>>,
                                                     amount |-> inp.amount,
                                                     currency |-> inp.currency])]
         /\ money' = [money EXCEPT ![c] = NewMoney(inp.amount, inp.currency)]
    /\ op' = [op EXCEPT ![c] = "money"]
    /\ pc' = [pc EXCEPT ![c] = "done"]
    /\ UNCHANGED <<payments, outbox, cache, agg, tx, result, doneBefore, seen,
                   cacheEverOk, getOutcome, setOutcome, cancelled, drained,
                   bufferAtCall, prevErr>>

NextMoney == \E c \in Procs : MakeMoney(c)

SpecMoney == Init /\ [][NextMoney]_vars


\* ------------------------------------------------------- client retries
\* The caller whose call lost the race for its idempotency key (its INSERT
\* met the unique index) sends the same request again.
Retry(c) ==
    /\ pc[c] = "done" /\ op[c] = "initiate"
    /\ result[c].err = ErrUniqueViolation
    /\ prevErr[c] = ""
    /\ prevErr' = [prevErr EXCEPT ![c] = result[c].err]
    /\ pc' = [pc EXCEPT ![c] = "get"]
    /\ result' = [result EXCEPT ![c] = NoResult]
    /\ agg' = [agg EXCEPT ![c] = NoAgg]
    /\ getOutcome' = [getOutcome EXCEPT ![c] = ""]
    /\ setOutcome' = [setOutcome EXCEPT ![c] = ""]
    /\ doneBefore' = [doneBefore EXCEPT ![c] = {d \in Procs \ {c} : pc[d] = "done"}]
    /\ UNCHANGED <<payments, outbox, cache, op, req, tx, seen, cacheEverOk,
                   cancelled, drained, bufferAtCall, money>>

NextRetry ==
    \/ Next
    \/ \E c \in Procs : Retry(c)

SpecRetry == Init /\ [][NextRetry]_vars


\* ================================================================ claims
\* The errors only an injected store failure produces.
StoreFailures == {ErrLookup, ErrBegin, ErrUpsert, ErrOutbox, ErrCommit}

Done(c) == pc[c] = "done"
Succeeded(c) == Done(c) /\ result[c].err = ""
Initiated(c) == op[c] = "initiate"

\* A request every check of the flow accepts: Validate, NewMoney and New.
WellFormed(r) ==
    /\ Validate(r)
    /\ NewMoney(r.AmountCents, r.Currency).ok
    /\ New(1, r.OrderID, r.CustomerID, NewMoney(r.AmountCents, r.Currency),
           r.IdempotencyKey).ok

RowsWithKey(k) == {row \in payments : row.key = k}

\* c and d overlap: neither had returned when the other started.
Concurrent(c, d) == c # d /\ c \notin doneBefore[d] /\ d \notin doneBefore[c]

\* C1: the payments table never holds two rows with the same idempotency key.
C1_OneRowPerKey ==
    \A r1 \in payments, r2 \in payments : r1.key = r2.key => r1 = r2

\* C1 witness: two overlapping requests with one key both reached the INSERT;
\* one row is committed and the other request was refused by the unique index.
C1_Witness ==
    \E c \in Procs, d \in Procs :
       /\ Concurrent(c, d)
       /\ req[c].IdempotencyKey = req[d].IdempotencyKey
       /\ Succeeded(c)
       /\ Done(d) /\ result[d].err = ErrUniqueViolation
       /\ Cardinality(RowsWithKey(req[c].IdempotencyKey)) = 1

\* C2 (as claimed): overlapping requests with one key and one well-formed
\* payload that meet no store failure all succeed with the same identifier.
C2_AllConcurrentSucceed ==
    \A c \in Procs, d \in Procs :
       ( /\ Concurrent(c, d)
         /\ Initiated(c) /\ Initiated(d)
         /\ req[c] = req[d] /\ WellFormed(req[c])
         /\ Done(c) /\ Done(d)
         /\ result[c].err \notin StoreFailures
         /\ result[d].err \notin StoreFailures )
       => /\ result[c].err = ""
          /\ result[d].err = ""
          /\ result[c].resp.PaymentID = result[d].resp.PaymentID

\* The requests that carry key k are the two requests c then d, one after the
\* other.
OnlySequentialPair(c, d) ==
    /\ c \in doneBefore[d]
    /\ Initiated(c) /\ Initiated(d)
    /\ req[c] = req[d]
    /\ \A e \in Procs \ {c, d} : req[e].IdempotencyKey # req[c].IdempotencyKey

\* C3: a well-formed request issued twice, one call after the other, with no
\* store failure: both calls succeed with the same {identifier, status} and
\* exactly one row holds the key.
C3_SequentialReplay ==
    \A c \in Procs, d \in Procs :
       ( /\ OnlySequentialPair(c, d)
         /\ WellFormed(req[c])
         /\ Done(d)
         /\ result[c].err \notin StoreFailures
         /\ result[d].err \notin StoreFailures )
       => /\ result[c].err = ""
          /\ result[d].err = ""
          /\ result[c].resp = result[d].resp
          /\ result[c].resp.PaymentID # NoID
          /\ Cardinality(RowsWithKey(req[c].IdempotencyKey)) = 1

\* C3 witness: the second call was answered from the cache.
C3_Witness ==
    \E c \in Procs, d \in Procs :
       /\ OnlySequentialPair(c, d)
       /\ WellFormed(req[c])
       /\ Succeeded(c) /\ Succeeded(d)
       /\ agg[d] = NoAgg
       /\ cache[req[c].IdempotencyKey] = Marshal(result[d].resp)

\* The requests that carry key k ran one after the other.
AllSequential(k) ==
    \A c \in Procs, d \in Procs :
       (c # d /\ req[c].IdempotencyKey = k /\ req[d].IdempotencyKey = k)
       => (c \in doneBefore[d] \/ d \in doneBefore[c])

\* C4: while every cache Get and Set has failed, a well-formed request repeated
\* after an earlier call with the same key and payload returned, and meeting no
\* store failure, returns the identifier of the one row that holds the key.
C4_CacheBlind ==
    ~cacheEverOk =>
      \A c \in Procs, d \in Procs :
         ( /\ c \in doneBefore[d]
           /\ Initiated(c) /\ Initiated(d)
           /\ req[c] = req[d] /\ WellFormed(req[c])
           /\ AllSequential(req[c].IdempotencyKey)
           /\ Done(d)
           /\ result[d].err \notin StoreFailures )
         => /\ result[d].err = ""
            /\ Cardinality(RowsWithKey(req[d].IdempotencyKey)) = 1
            /\ \A row \in RowsWithKey(req[d].IdempotencyKey) :
                  result[d].resp.PaymentID = row.id

\* C4 witness: the cache never answered, the first call created the row and
\* the repeated call returned its identifier.
C4_Witness ==
    /\ ~cacheEverOk
    /\ \E c \in Procs, d \in Procs :
         /\ c \in doneBefore[d]
         /\ req[c] = req[d]
         /\ Succeeded(c) /\ Succeeded(d)
         /\ agg[c] # NoAgg
         /\ result[d].resp.PaymentID = agg[c].id

\* The "payment.initiated" outbox rows of aggregate id.
InitiatedRows(id) ==
    {i \in 1..Len(outbox) :
        outbox[i].aggregate_id = id /\ outbox[i].event_type = "payment.initiated"}

\* C5: a payments row for P is committed exactly when the outbox holds exactly
\* one "payment.initiated" row for P; an outbox row never lacks its payment.
C5_RowIffOneEvent ==
    /\ \A row \in payments : Cardinality(InitiatedRows(row.id)) = 1
    /\ \A i \in 1..Len(outbox) : \E row \in payments : row.id = outbox[i].aggregate_id

\* C5 witness: one Save committed its row and event, another Save failed at
\* the outbox INSERT or at COMMIT, after its upsert had run.
C5_Witness ==
    \E c \in Procs, d \in Procs :
       /\ Succeeded(c) /\ agg[c] # NoAgg
       /\ Cardinality(InitiatedRows(agg[c].id)) = 1
       /\ Done(d) /\ result[d].err \in {ErrOutbox, ErrCommit}

\* ------------------------------------------------ claims on Save (SpecSave)
Saved(c) == op[c] = "save"

\* C6: a Save that ends with an error after its upsert has run (at the outbox
\* INSERT or at COMMIT) changes neither table, and the row it had written is
\* not visible.
C6_RollbackAfterUpsert ==
    [][\A c \in Procs :
          ( /\ pc[c] \in {"outbox", "commit"}
            /\ pc'[c] = "done"
            /\ result'[c].err # "" )
          => /\ payments' = payments
             /\ outbox' = outbox
             /\ tx[c].write \notin payments'
             /\ tx'[c] = NoTx]_vars

\* C6 witness: a Save of a new aggregate failed at the outbox INSERT or at
\* COMMIT and no row with its identifier is stored.
C6_Witness ==
    \E c \in Procs :
       /\ Saved(c) /\ Done(c)
       /\ result[c].err \in {ErrOutbox, ErrCommit}
       /\ StoredVersion(agg[c].id) = 0

Carrying(id, w) == {c \in Procs : Saved(c) /\ agg[c].id = id /\ agg[c].version = w}

\* C8: when two or more Saves carry the same identifier and version v+1, each
\* was called against stored version v, all have returned and none met a store
\* failure, exactly one succeeded and every other got VersionConflict.
C8_OneWinnerPerVersion ==
    \A id \in SaveIds, w \in 2..MaxVersion :
       LET S == Carrying(id, w) IN
       ( /\ Cardinality(S) >= 2
         /\ \A c \in S : seen[c] = w - 1
         /\ \A c \in S : Done(c) /\ result[c].err \notin StoreFailures )
       => /\ Cardinality({c \in S : result[c].err = ""}) = 1
          /\ \A c \in S : result[c].err \in {"", ErrVersionConflict}

\* C8 witness: two overlapping Saves carried version 2 against stored version
\* 1; one succeeded, the other got VersionConflict.
C8_Witness ==
    \E c \in Procs, d \in Procs :
       /\ Concurrent(c, d)
       /\ Saved(c) /\ Saved(d)
       /\ agg[c].id = agg[d].id
       /\ agg[c].version = 2 /\ agg[d].version = 2
       /\ seen[c] = 1 /\ seen[d] = 1
       /\ Succeeded(c)
       /\ Done(d) /\ result[d].err = ErrVersionConflict

\* Two overlapping Saves of one identifier, both carrying version 1, both
\* called against stored version 1, both returned without a store failure.
TwoSavesOfStoredVersionOne(c, d) ==
    /\ Concurrent(c, d)
    /\ Saved(c) /\ Saved(d)
    /\ agg[c].id = agg[d].id
    /\ agg[c].version = 1 /\ agg[d].version = 1
    /\ seen[c] = 1 /\ seen[d] = 1
    /\ Done(c) /\ Done(d)
    /\ result[c].err \notin StoreFailures
    /\ result[d].err \notin StoreFailures

\* C9 (as claimed): of two concurrent Saves carrying version 1 against stored
\* version 1, exactly one succeeds and the other gets VersionConflict.
C9_OneOfTwoSucceeds ==
    \A c \in Procs, d \in Procs :
       TwoSavesOfStoredVersionOne(c, d)
       => \/ result[c].err = "" /\ result[d].err = ErrVersionConflict
          \/ result[d].err = "" /\ result[c].err = ErrVersionConflict

\* C9 (amended): both Saves get VersionConflict and the stored row keeps
\* version 1.
C9_BothConflict ==
    \A c \in Procs, d \in Procs :
       TwoSavesOfStoredVersionOne(c, d)
       => /\ result[c].err = ErrVersionConflict
          /\ result[d].err = ErrVersionConflict
          /\ StoredVersion(agg[c].id) >= 1

\* C9 witness: the two Saves have returned.
C9_Witness ==
    \E c \in Procs, d \in Procs :
       /\ TwoSavesOfStoredVersionOne(c, d)
       /\ StoredVersion(agg[c].id) = 1

\* A returned Save that carried version 1, was called when no row was stored
\* under its identifier, and met no store failure.
FirstInsert(c) ==
    /\ Saved(c) /\ Done(c)
    /\ agg[c].version = 1
    /\ seen[c] = 0
    /\ result[c].err \notin StoreFailures

\* C10 (as claimed): a first insert always succeeds.
C10_FirstInsertSucceeds ==
    \A c \in Procs : FirstInsert(c) => result[c].err = ""

\* C10 (amended): a first insert succeeds unless another identifier's row holds
\* its idempotency key (unique violation) or a concurrent Save stored a row
\* under its identifier first (VersionConflict).
C10_FirstInsertOutcome ==
    \A c \in Procs :
       FirstInsert(c) =>
          \/ /\ result[c].err = ""
             /\ StoredVersion(agg[c].id) >= 1
          \/ /\ result[c].err = ErrUniqueViolation
             /\ \E row \in payments : row.key = agg[c].key /\ row.id # agg[c].id
          \/ /\ result[c].err = ErrVersionConflict
             /\ StoredVersion(agg[c].id) >= 1

\* C10 witness: a first insert succeeded while another row was stored, and
\* another first insert was refused by the unique index.
C10_Witness ==
    \E c \in Procs, d \in Procs :
       /\ FirstInsert(c) /\ result[c].err = ""
       /\ FirstInsert(d) /\ result[d].err = ErrUniqueViolation
       /\ Cardinality(payments) >= 1

\* ------------------------------------------------------------------- C11
\* The request misses a field Validate demands.
Invalid(r) ==
    \/ r.OrderID = <<>>
    \/ r.CustomerID = <<>>
    \/ r.Currency = <<>>
    \/ r.IdempotencyKey = NoKey
    \/ r.AmountCents <= 0

\* C11: an initiation request with an empty order id, customer id, currency
\* or idempotency key, or an amount <= 0, has returned a validation error
\* in every state after its arrival: it never stands before a cache Get, a
\* store lookup, a Save step or a cache Set, none of them was made for it,
\* and no aggregate was built.
C11_InvalidFailsFast ==
    \A c \in Procs :
        op[c] = "initiate" /\ Invalid(req[c]) =>
            /\ pc[c] = "done"
            /\ result[c] = Result(NoResp, ErrValidation)
            /\ getOutcome[c] = "" /\ setOutcome[c] = ""
            /\ agg[c] = NoAgg /\ tx[c] = NoTx

\* Two invalid requests have ended: one without a key, one with amount <= 0.
C11_Witness ==
    \E c, d \in Procs :
        /\ c # d /\ op[c] = "initiate" /\ op[d] = "initiate"
        /\ pc[c] = "done" /\ req[c].IdempotencyKey = NoKey /\ req[c].AmountCents > 0
        /\ pc[d] = "done" /\ req[d].IdempotencyKey # NoKey /\ req[d].AmountCents <= 0

\* ------------------------------------------------------------------- C12
\* C12: in every cache and store state, an initiation request whose
\* currency is not exactly 3 characters long is answered with a validation
\* error, neither with a success nor with an internal failure.
C12_MalformedCurrencyRejected ==
    \A c \in Procs :
        op[c] = "initiate" /\ pc[c] = "done" /\ Len(req[c].Currency) # 3 =>
            HandlerAnswer(result[c]) = "VALIDATION_ERROR"

\* ------------------------------------------------------------------- C13
\* Process c's cache Get returns in this step, without an error.
GetReturns(c) == pc[c] = "get" /\ pc'[c] # "get" /\ getOutcome'[c] # "err"

\* The cache holds a parseable entry under k.
ParseableEntry(k) == cache[k] # Nil /\ Unmarshal(cache[k]).ok

\* C13: when the cache Get for the request's key returns an entry that
\* parses as a response, InitiatePayment returns exactly that response in
\* the same step: it makes no store lookup, builds no aggregate, opens no
\* transaction, writes no payments or outbox row and makes no cache Set.
C13_CacheHitShortCircuits ==
    [][\A c \in Procs :
          GetReturns(c) /\ ParseableEntry(req[c].IdempotencyKey) =>
              /\ pc'[c] = "done"
              /\ result'[c] = Result(Unmarshal(cache[req[c].IdempotencyKey]).resp, "")
              /\ agg'[c] = NoAgg /\ tx'[c] = NoTx /\ setOutcome'[c] = ""
              /\ UNCHANGED <<payments, outbox, cache>>]_vars

\* A request was answered from the cache with the identifier of a stored
\* row that another request created.
C13_Witness ==
    \E c \in Procs :
        /\ pc[c] = "done" /\ getOutcome[c] = "hit" /\ agg[c] = NoAgg
        /\ \E r \in payments : r.id = result[c].resp.PaymentID /\ r.id # NewPaymentID(c)

\* ------------------------------------------------------------------- C14
\* C14: a cache failure never fails a request.  When the cache Get returns
\* an error the call goes on to the store lookup with nothing returned and
\* nothing changed, as it does on a miss; when the cache Set returns, with
\* an error or without, the call returns the successful response it had
\* prepared before the Set.
C14_CacheFailureNotFatal ==
    [][\A c \in Procs :
          /\ pc[c] = "get" /\ getOutcome'[c] \in {"err", "miss"} =>
                /\ pc'[c] = "find"
                /\ result'[c] = NoResult /\ agg'[c] = NoAgg /\ tx'[c] = NoTx
                /\ UNCHANGED <<payments, outbox, cache>>
          /\ pc[c] = "cacheSet" /\ setOutcome'[c] \in {"err", "ok"} =>
                /\ pc'[c] = "done"
                /\ result'[c] = result[c]
                /\ result[c].err = "" /\ result[c].resp # NoResp
                /\ setOutcome'[c] = "err" => cache' = cache]_vars

\* A request whose cache Get and cache Set both failed has created its row
\* and returned its identifier.
C14_Witness ==
    \E c \in Procs :
        /\ pc[c] = "done" /\ getOutcome[c] = "err" /\ setOutcome[c] = "err"
        /\ result[c] = Result(Response(NewPaymentID(c), StatusPending), "")
        /\ \E r \in payments : r.id = NewPaymentID(c)

\* ------------------------------------------------------------------- C15
\* Process c's store lookup returns in this step, without a store error.
LookupReturns(c) == pc[c] = "find" /\ pc'[c] # "find" /\ result'[c].err # ErrLookup

\* C15: when the store lookup returns and a row is stored under the
\* request's idempotency key, InitiatePayment prepares that row's
\* {identifier, status} as its response, builds no aggregate and opens no
\* transaction; from there it only makes the cache Set and returns, so it
\* calls no Save.
C15_ExistingAggregateReturned ==
    [][\A c \in Procs :
          /\ LookupReturns(c) /\ RowsWithKey(req[c].IdempotencyKey) # {} =>
                /\ pc'[c] = "cacheSet"
                /\ \E r \in RowsWithKey(req[c].IdempotencyKey) :
                      result'[c] = Result(Response(r.id, r.status), "")
                /\ agg'[c] = NoAgg /\ tx'[c] = NoTx
                /\ UNCHANGED <<payments, outbox>>
          /\ pc[c] = "cacheSet" /\ agg[c] = NoAgg =>
                /\ pc'[c] \in {"cacheSet", "done"}
                /\ agg'[c] = NoAgg /\ tx'[c] = NoTx
                /\ result'[c] = result[c]]_vars

\* A request that was not answered from the cache has returned the identifier of the row another request created.
C15_Witness ==
    \E c \in Procs :
        /\ pc[c] = "done" /\ getOutcome[c] \in {"err", "miss", "corrupt"}
        /\ agg[c] = NoAgg /\ result[c].err = ""
        /\ \E r \in RowsWithKey(req[c].IdempotencyKey) :
              r.id = result[c].resp.PaymentID /\ r.id # NewPaymentID(c)

\* ------------------------------------------------------------------- C16
\* C16: cache self-healing.  When a request found an unparseable cache
\* entry under its key and an aggregate stored under that key, then at the
\* step in which its cache Set returns without an error the entry under
\* the key becomes the parseable result of that aggregate.
C16_CorruptEntryHealed ==
    [][\A c \in Procs :
          /\ getOutcome[c] = "corrupt" /\ agg[c] = NoAgg
          /\ pc[c] = "cacheSet" /\ setOutcome'[c] = "ok"
          => /\ cache'[req[c].IdempotencyKey] = Marshal(result[c].resp)
             /\ \E r \in RowsWithKey(req[c].IdempotencyKey) :
                   Unmarshal(cache'[req[c].IdempotencyKey]) =
                       [ok |-> TRUE, resp |-> Response(r.id, r.status)]]_vars

\* ------------------------------------------------------------------- C17
\* C17: cache Set is first-writer-wins.  A Set that returns without an
\* error writes its text when no entry is stored under the key; when an
\* entry is stored (written by an earlier Set and not yet expired, damaged
\* or not) it changes nothing in the cache, and the call still returns its
\* prepared successful response.
C17_FirstWriterWins ==
    [][\A c \in Procs :
          pc[c] = "cacheSet" /\ setOutcome'[c] = "ok" =>
              LET k == req[c].IdempotencyKey IN
              /\ IF cache[k] = Nil
                 THEN cache' = [cache EXCEPT ![k] = Marshal(result[c].resp)]
                 ELSE cache' = cache
              /\ pc'[c] = "done"
              /\ result'[c] = result[c] /\ result[c].err = ""]_vars

\* Two requests with one key have both made their Set without an error, the
\* second of them onto a damaged entry, which is still the stored one.
C17_Witness ==
    \E c, d \in Procs :
        /\ c # d /\ req[c].IdempotencyKey = req[d].IdempotencyKey
        /\ pc[c] = "done" /\ setOutcome[c] = "ok"
        /\ pc[d] = "done" /\ setOutcome[d] = "ok"
        /\ cache[req[c].IdempotencyKey] = Garbage

\* ------------------------------------------------------------------- C18
\* The rows request c has committed: its payments row and its outbox rows.
CommittedBy(c) ==
    <<{r \in payments : r.id = NewPaymentID(c)},
      {i \in 1..Len(outbox) : outbox[i].aggregate_id = NewPaymentID(c)}>>

\* C18: once the caller's context of an InitiatePayment call is cancelled,
\* the call's store lookup or Save aborts: no payments row and no outbox
\* row of that call is committed in any later step.
C18_CancelledCommitsNothing ==
    [][\A c \in Procs : cancelled[c] => CommittedBy(c)' = CommittedBy(c)]_vars

\* ------------------------------------------------------------------- C19
\* The errors the store returns from the lookup or from Save.
StoreErrors == StoreFailures \cup {ErrUniqueViolation, ErrVersionConflict}

\* C19: a store failure is fatal.  A request whose lookup or Save returned
\* a store error has returned that error and no response, no payments row
\* and no outbox row carries the identifier it generated, no transaction
\* of it is left open, and no cache Set was made for it.
C19_StoreFailureFatal ==
    \A c \in Procs :
        op[c] = "initiate" /\ result[c].err \in StoreErrors =>
            /\ pc[c] = "done"
            /\ result[c].resp = NoResp
            /\ CommittedBy(c) = <<{}, {}>>
            /\ tx[c] = NoTx
            /\ setOutcome[c] = ""

\* One request's lookup failed and another request's COMMIT failed.
C19_Witness ==
    \E c, d \in Procs :
        /\ pc[c] = "done" /\ result[c].err = ErrLookup
        /\ pc[d] = "done" /\ result[d].err = ErrCommit
        /\ op[c] = "initiate" /\ op[d] = "initiate"

\* ------------------------------------------------------------------- C20
\* C20: a successful create returns an aggregate with status PENDING,
\* version 1, the given idempotency key and a buffer of exactly one
\* "payment initiated" event that carries the aggregate's identifier; a
\* create with an empty order id, customer id or idempotency key returns
\* an error and no aggregate.
C20_NewContract ==
    \A c \in Procs :
        op[c] = "create" =>
            /\ result[c].err = "" =>
                  /\ agg[c].id # NoID
                  /\ agg[c].status = StatusPending
                  /\ agg[c].version = 1
                  /\ agg[c].key = req[c].IdempotencyKey
                  /\ Len(agg[c].events) = 1
                  /\ EventType(agg[c].events[1]) = "payment.initiated"
                  /\ agg[c].events[1].PaymentID = agg[c].id
            /\ (\/ req[c].OrderID = <<>>
                \/ req[c].CustomerID = <<>>
                \/ req[c].IdempotencyKey = NoKey) =>
                  result[c].err # "" /\ agg[c] = NoAgg

\* One create has succeeded and one create without a key has failed.
C20_Witness ==
    \E c, d \in Procs :
        /\ op[c] = "create" /\ result[c].err = "" /\ agg[c] # NoAgg
        /\ op[d] = "create" /\ req[d].IdempotencyKey = NoKey
        /\ req[d].OrderID = ORD1 /\ req[d].CustomerID = CUST1
        /\ result[d].err = ErrCreate


\* ------------------------------------------------------------------- C21
\* C21: a drain returns the buffered events in their order and empties the
\* buffer, changing no other field of the aggregate; a drain that follows
\* another with no mutation in between returns the empty sequence.
C21_DrainOnce ==
    [][\A c \in Procs :
          drained'[c] # drained[c] =>
              /\ drained'[c] = Append(drained[c], agg[c].events)
              /\ agg'[c] = [agg[c] EXCEPT !.events = <<>>]
              /\ drained[c] # <<>> => drained'[c][Len(drained'[c])] = <<>>]_vars

\* An aggregate returned by New was drained twice: its one event came out
\* the first time, nothing the second time.
C21_Witness ==
    \E c \in Procs :
        /\ Len(drained[c]) = 2
        /\ Len(drained[c][1]) = 1 /\ drained[c][1][1].PaymentID = agg[c].id
        /\ drained[c][2] = <<>>
        /\ agg[c].events = <<>> /\ agg[c].version = 1


\* ------------------------------------------------------------------- C22
\* The upper-case letters.
UpperLetters ==
    {"A", "B", "C", "D", "E", "F", "G", "H", "I", "J", "K", "L", "M",
     "N", "O", "P", "Q", "R", "S", "T", "U", "V", "W", "X", "Y", "Z"}

\* C22: Money construction rejects every amount <= 0 and every currency
\* whose length is not 3, and every Money it returns has an amount > 0 and
\* a currency of exactly 3 upper-case letters.
C22_MoneyInvariant ==
    \A c \in Procs :
        op[c] = "money" =>
            /\ req[c].AmountCents <= 0 => ~money[c].ok
            /\ Len(req[c].Currency) # 3 => ~money[c].ok
            /\ money[c].ok =>
                  /\ money[c].amount > 0
                  /\ Len(money[c].currency) = 3
                  /\ \A i \in 1..Len(money[c].currency) :
                        money[c].currency[i] \in UpperLetters


\* ------------------------------------------------------------------- C23
\* C23: the event loop of InitiatePayment that follows a successful Save
\* finds the buffer empty and writes nothing, and the outbox table changes
\* only in the COMMIT of a Save transaction, which appends that
\* transaction's outbox rows and stores its payments row.
C23_NoOutboxWriteOutsideSave ==
    [][/\ \A c \in Procs :
            pc[c] = "events" /\ pc'[c] # "events" =>
                /\ PopEvents(agg[c]).events = <<>>
                /\ outbox' = outbox
       /\ outbox' # outbox =>
            \E c \in Procs :
                /\ pc[c] = "commit" /\ pc'[c] # "commit"
                /\ outbox' = outbox \o tx[c].outbox
                /\ tx[c].write \in payments']_vars

\* A request's Save has committed its row with one outbox row, and the
\* call has passed the event loop.
C23_Witness ==
    \E c \in Procs :
        /\ op[c] = "initiate" /\ pc[c] \in {"cacheSet", "done"}
        /\ agg[c] # NoAgg /\ agg[c].events = <<>>
        /\ result[c].err = ""
        /\ \E r \in payments : r.id = agg[c].id
        /\ Cardinality(InitiatedRows(agg[c].id)) = 1


\* ------------------------------------------------------------------- C24
\* C24: in every interleaving and with the cache failing, expiring or
\* damaged, two calls with the same idempotency key that have both returned
\* success have returned the same payment identifier.
C24_SameKeySameID ==
    \A c, d \in Procs :
        /\ Initiated(c) /\ Initiated(d)
        /\ Succeeded(c) /\ Succeeded(d)
        /\ req[c].IdempotencyKey = req[d].IdempotencyKey
        => result[c].resp.PaymentID = result[d].resp.PaymentID

\* Two overlapping calls with one key have both returned success, one of
\* them after reading a damaged cache entry.
C24_Witness ==
    \E c, d \in Procs :
        /\ Concurrent(c, d)
        /\ Initiated(c) /\ Initiated(d) /\ Succeeded(c) /\ Succeeded(d)
        /\ req[c].IdempotencyKey = req[d].IdempotencyKey
        /\ result[c].resp.PaymentID = NewPaymentID(c)
        /\ result[d].resp.PaymentID = NewPaymentID(c)
        /\ getOutcome[d] = "corrupt"


\* ------------------------------------------------------------------- C25
\* C25: cache coherence.  Every entry the service has written under an
\* idempotency key (an entry that parses) holds the identifier and status
\* of a payments row committed under that key.
C25_CacheCoherent ==
    \A k \in Keys :
        ParseableEntry(k) =>
            \E r \in RowsWithKey(k) :
                Unmarshal(cache[k]).resp = Response(r.id, r.status)

\* Each of two keys has an entry written by a request of that key.
C25_Witness ==
    /\ \A k \in Keys : ParseableEntry(k)
    /\ \E c, d \in Procs :
          /\ setOutcome[c] = "ok" /\ setOutcome[d] = "ok"
          /\ req[c].IdempotencyKey # req[d].IdempotencyKey


\* ------------------------------------------------------------------- C26
\* C26: a replayed request changes neither table.  Every step of a call
\* that has built no aggregate (its cache Get, its store lookup that finds
\* the aggregate, its cache Set) leaves payments and outbox as they were,
\* whatever order id, customer id, amount and currency the request carries.
C26_ReplayWritesNothing ==
    [][\A c \in Procs :
          /\ Initiated(c) /\ pc'[c] # pc[c]
          /\ pc[c] \in {"get", "find", "cacheSet"}
          /\ agg[c] = NoAgg /\ agg'[c] = NoAgg
          => UNCHANGED <<payments, outbox>>]_vars

\* A request was answered with the identifier of a row that was created
\* from another amount and currency, and the row still holds those.
C26_Witness ==
    \E c \in Procs :
        /\ Initiated(c) /\ Succeeded(c) /\ agg[c] = NoAgg
        /\ \E r \in RowsWithKey(req[c].IdempotencyKey) :
              /\ r.id = result[c].resp.PaymentID
              /\ r.amount # req[c].AmountCents
              /\ r.currency # ToUpper(TrimSpace(req[c].Currency))
        /\ CommittedBy(c) = <<{}, {}>>


\* ------------------------------------------------------------------- C27
\* C27: convergence on retry.  When a call returned an error because
\* another call with its idempotency key committed first, the call its
\* caller makes afterwards with that key, if it meets no store failure,
\* returns success with the identifier of the row committed under the key.
C27_RetryConverges ==
    \A c \in Procs :
        /\ Initiated(c) /\ Done(c)
        /\ prevErr[c] = ErrUniqueViolation
        /\ result[c].err \notin StoreFailures
        => /\ result[c].err = ""
           /\ \E r \in RowsWithKey(req[c].IdempotencyKey) :
                 result[c].resp = Response(r.id, r.status)

\* The loser of a race has retried and got the winner's identifier from
\* the store, the cache having failed it.
C27_Witness ==
    \E c, d \in Procs :
        /\ c # d /\ prevErr[c] = ErrUniqueViolation
        /\ Succeeded(c) /\ getOutcome[c] = "err"
        /\ result[c].resp.PaymentID = NewPaymentID(d)
        /\ req[d].IdempotencyKey = req[c].IdempotencyKey


\* ------------------------------------------------------------------- C28
\* C28: a Save that has returned VersionConflict, the error of a failed
\* outbox INSERT or the error of a failed COMMIT has left the aggregate's
\* event buffer as it was when Save was called.
C28_FailedSaveKeepsBuffer ==
    \A c \in Procs :
        /\ op[c] = "save" /\ Done(c)
        /\ result[c].err \in {ErrVersionConflict, ErrOutbox, ErrCommit}
        => agg[c].events = bufferAtCall[c]

====
